---- MODULE Spec2Model ----
(***************************************************************************)
(* Model of the SRA API client (src/index.js): the response normalizer     *)
(* _handleResponse, the resource operations login / upload / taskQueue /   *)
(* getLibraryReferences and the task poller taskWait.                      *)
(*                                                                         *)
(* JavaScript values are modelled as follows.                              *)
(*   - a callback argument is "function" or "undefined";                   *)
(*   - an error value is a string, Null standing for null / undefined;     *)
(*   - an optional value is a sequence: <<>> for undefined, <<v>> for v;   *)
(*   - a missing (or empty) string field of a body is "";                  *)
(*   - 'text' + n is string concatenation of the decimal digits of n.      *)
(***************************************************************************)
EXTENDS Integers, Sequences, FiniteSets, TLC

VARIABLES
    config,      \* this.config
    globalConfig,\* the host program's global `config`: <<>> when not defined
    called,      \* called[t]: taskWait(t, ...) has been invoked
    cbFn,        \* cbFn[t]: the callback argument of taskWait(t, ...)
    progFn,      \* progFn[t]: the callbackProgress argument
    inflight,    \* inflight[t]: GET requests of the poller awaiting .end
    timers,      \* timers[t]: pending setTimeout(checkTask, pollFreq)
    reqCount,    \* reqCount[t]: GET requests issued so far
    fired,       \* fired[t]: poll timers that have fired so far
    hist,        \* hist[t]: body.status of every response received
    lastErr,     \* lastErr[t]: err of the last .end invocation
    lastRes,     \* lastRes[t]: res of the last .end invocation, <<>> if none
    branch,      \* branch[t]: path the last .end handler took
    cbLog,       \* cbLog[t]: invocations of callback, in order
    progLog,     \* progLog[t]: invocations of callbackProgress, in order
    thrown,      \* thrown[t]: exception raised by the last handler
    op           \* the resource operation in progress (see OpIdle)

pollVars == <<called, cbFn, progFn, inflight, timers, reqCount, fired, hist,
              lastErr, lastRes, branch, cbLog, progLog, thrown>>
vars == <<config, globalConfig, pollVars, op>>

(***************************************************************************)
(* Bounds of the model.                                                    *)
(***************************************************************************)
MaxTicks == 3        \* GET requests one taskWait invocation may issue
MaxProgress == 2     \* largest progress.max the server reports
WideMax == 20        \* progress.max of a task with many work items

(***************************************************************************)
(* Values.                                                                 *)
(***************************************************************************)
PollFreq == 1000
Url == "http://glitch"
HostUrl == "http://host"

Null == "null"
NoThrow == "none"
Callbacks == {"function", "undefined"}
Tasks == {"t1", "t2"}
TransportErrors == {"ECONNREFUSED"}
StatusCodes == {200, 201, 500}
TaskStatuses == {"", "pending", "processing", "completed", "error", "bogus"}

IsFunction(f) == f = "function"
Truthy(s) == s # "" /\ s # Null

Digit(d) == CASE d = 0 -> "0" [] d = 1 -> "1" [] d = 2 -> "2" [] d = 3 -> "3"
              [] d = 4 -> "4" [] d = 5 -> "5" [] d = 6 -> "6" [] d = 7 -> "7"
              [] d = 8 -> "8" [] d = 9 -> "9"

RECURSIVE ToStr(_)
ToStr(n) == IF n < 10 THEN Digit(n) ELSE ToStr(n \div 10) \o Digit(n % 10)

(***************************************************************************)
(* Server responses.  res.status is superagent's alias of res.statusCode.  *)
(***************************************************************************)
NoProgress == <<>>
Progresses == {<<c, m>> : c \in 0..MaxProgress, m \in 1..MaxProgress}
RawProgress == {p \in Progresses : p[1] <= p[2]}
WideProgress == {<<c, WideMax>> : c \in 0..WideMax}

Bodies(t) ==
    {[_id |-> i, status |-> s, progress |-> p] :
        i \in {"", t}, s \in TaskStatuses, p \in RawProgress \cup {NoProgress}}
TaskBodies(t) ==
    {b \in Bodies(t) : b.status # "processing" => b.progress = NoProgress}
WideBodies(t) ==
    {[_id |-> t, status |-> "processing", progress |-> p] : p \in WideProgress}

Responses(B) ==
    {[statusCode |-> c, status |-> c, body |-> b] : c \in StatusCodes, b \in B}

(***************************************************************************)
(* Invocations of a callback: callback(err) and callback(null, value).     *)
(***************************************************************************)
NoValue == <<>>
Call(err, val) == [err |-> err, val |-> val]

(***************************************************************************)
(* _handleResponse(err, res, callback): the invocations of callback.       *)
(***************************************************************************)
\* mutant: the status test inverted
HandleResponseInverted(err, res, callback) ==
    IF ~IsFunction(callback) THEN <<>>
    ELSE IF Truthy(err) THEN <<Call(err, NoValue)>>
    ELSE IF res.statusCode = 200
         THEN <<Call("Status code: " \o ToStr(res.statusCode), NoValue)>>
    ELSE <<Call(Null, <<res.body>>)>>

\* mutant: no return after reporting a server error
HandleResponseNoReturn(err, res, callback) ==
    IF ~IsFunction(callback) THEN <<>>
    ELSE IF Truthy(err) THEN <<Call(err, NoValue)>>
    ELSE IF res.statusCode # 200
         THEN <<Call("Status code: " \o ToStr(res.statusCode), NoValue),
                Call(Null, <<res.body>>)>>
    ELSE <<Call(Null, <<res.body>>)>>

HandleResponse(err, res, callback) ==
    IF ~IsFunction(callback) THEN <<>>
    ELSE IF Truthy(err) THEN <<Call(err, NoValue)>>
    ELSE IF res.statusCode # 200
         THEN <<Call("Status code: " \o ToStr(res.statusCode), NoValue)>>
    ELSE <<Call(Null, <<res.body>>)>>

(***************************************************************************)
(* The .end handler of checkTask.  Its result records the path taken, the  *)
(* invocations of callback and callbackProgress, the number of timers set  *)
(* and the exception that ended the handler, if any.                       *)
(***************************************************************************)
Result(b, calls, prog, nTimers, exc) ==
    [branch |-> b, calls |-> calls, prog |-> prog, timers |-> nTimers,
     thrown |-> exc]

\* callback(err) where callback may not be a function
Invoke(b, callback, err) ==
    IF IsFunction(callback)
    THEN Result(b, <<Call(err, NoValue)>>, <<>>, 0, NoThrow)
    ELSE Result(b, <<>>, <<>>, 0, "TypeError")

(***************************************************************************)
(* Math.ceil(current / max * 100) in IEEE 754 double precision, for        *)
(* integers 0 <= current < 8192 and 0 < max < 8192.  A double is held as   *)
(* three limbs of LimbBits bits, the 53 bits of its significand followed   *)
(* by one more bit, and an exponent e: its value is                        *)
(* (l1 * Limb^2 + l2 * Limb + l3) * 2^(e - 3 * LimbBits).  The division    *)
(* and the multiplication round to nearest, ties to even.                  *)
(***************************************************************************)
LimbBits == 18
Limb == 262144

RECURSIVE Pow2(_)
Pow2(n) == IF n = 0 THEN 1 ELSE 2 * Pow2(n - 1)

RECURSIVE BitLen(_)
BitLen(n) == IF n = 0 THEN 0 ELSE 1 + BitLen(n \div 2)

\* the least s with c < d * 2^s
RECURSIVE UpShift(_, _)
UpShift(c, d) == IF c < d THEN 0 ELSE 1 + UpShift(c, 2 * d)

\* the least z with 2 * c * 2^z >= d, for 0 < c < d
RECURSIVE LeadZeros(_, _)
LeadZeros(c, d) == IF 2 * c >= d THEN 0 ELSE 1 + LeadZeros(2 * c, d)

Float(l1, l2, l3, e) == [l1 |-> l1, l2 |-> l2, l3 |-> l3, e |-> e]

\* round to nearest even at bit d of the last limb, carrying into the others
Round(l1, l2, l3, d, sticky, e) ==
    LET guard == (l3 \div Pow2(d - 1)) % 2
        below == sticky \/ l3 % Pow2(d - 1) # 0
        lsb == (l3 \div Pow2(d)) % 2
        up == guard = 1 /\ (below \/ lsb = 1)
        r3 == (l3 \div Pow2(d) + (IF up THEN 1 ELSE 0)) * Pow2(d)
        r2 == l2 + r3 \div Limb
    IN  Float(l1 + r2 \div Limb, r2 % Limb, r3 % Limb, e)

\* c / m
Div(c, m) ==
    IF c = 0 THEN Float(0, 0, 0, 0)
    ELSE LET s == UpShift(c, m)
             d == m * Pow2(s)
             z == LeadZeros(c, d)
             n == c * Pow2(z)
             l1 == (n * Limb) \div d
             r1 == (n * Limb) % d
             l2 == (r1 * Limb) \div d
             r2 == (r1 * Limb) % d
             l3 == (r2 * Limb) \div d
             r3 == (r2 * Limb) % d
         IN  Round(l1, l2, l3, 1, r3 # 0, s - z)

\* f * k, for an integer 0 < k < 4096
Mul(f, k) ==
    LET t3 == f.l3 * k
        t2 == f.l2 * k + t3 \div Limb
        p1 == f.l1 * k + t2 \div Limb
    IN  IF p1 = 0 THEN f
        ELSE Round(p1, t2 % Limb, t3 % Limb,
                   BitLen(p1) + 2 * LimbBits - 53, FALSE, f.e)

\* Math.ceil(f), for 0 <= f < 2^LimbBits
Ceil(f) ==
    LET j == LimbBits - f.e
        whole == IF j > 30 THEN 0 ELSE f.l1 \div Pow2(j)
        part == IF j > 30 THEN f.l1 ELSE f.l1 % Pow2(j)
    IN  whole + (IF part # 0 \/ f.l2 # 0 \/ f.l3 # 0 THEN 1 ELSE 0)

Percent(p) == Ceil(Mul(Div(p[1], p[2]), 100))

\* Percent, tabulated over the progress values the server reports
PercentOf == [p \in RawProgress \cup WideProgress |-> Percent(p)]

Augment(body) ==
    [body EXCEPT !.progress = <<@[1], @[2], PercentOf[@]>>]

\* mutant: callback invoked directly and again by _handleResponse
CompletedTwice(err, res, callback) ==
    Result("completed",
           HandleResponse(err, res, callback) \o HandleResponse(err, res, callback),
           <<>>, 0, NoThrow)

\* mutant: completion also reported to the progress callback
CompletedWithProgress(err, res, callback) ==
    Result("completed", HandleResponse(err, res, callback), <<res.body>>, 0,
           NoThrow)

Completed(err, res, callback) ==
    Result("completed", HandleResponse(err, res, callback), <<>>, 0, NoThrow)

Pending == Result("pending", <<>>, <<>>, 1, NoThrow)

\* mutant: callback() called without the error
TaskErrorNoArg(callback) == Invoke("error", callback, Null)

\* mutant: case 'error' without its break, falling into the next case
TaskErrorNoBreak(callback) ==
    LET r == Invoke("error", callback, "Task error")
    IN  IF r.thrown = NoThrow THEN [r EXCEPT !.timers = 1] ELSE r

TaskError(callback) == Invoke("error", callback, "Task error")

\* mutant: the next tick scheduled inside the if and again after it
ProcessingTwoTimers(res, callbackProgress) ==
    IF IsFunction(callbackProgress)
    THEN IF res.body.progress = NoProgress
         THEN Result("processing", <<>>, <<>>, 0, "TypeError")
         ELSE Result("processing", <<>>, <<Augment(res.body)>>, 2, NoThrow)
    ELSE Result("processing", <<>>, <<>>, 1, NoThrow)

Processing(res, callbackProgress) ==
    IF IsFunction(callbackProgress)
    THEN IF res.body.progress = NoProgress
         THEN Result("processing", <<>>, <<>>, 0, "TypeError")
         ELSE Result("processing", <<>>, <<Augment(res.body)>>, 1, NoThrow)
    ELSE Result("processing", <<>>, <<>>, 1, NoThrow)

\* mutant: an unknown status treated like pending
UnknownStatusPolls(res, callback) ==
    Result("unknown", <<>>, <<>>, 1, NoThrow)

UnknownStatus(res, callback) ==
    Invoke("unknown", callback,
           "Unknown server task status: " \o ToStr(res.status))

\* mutant: a failed request is retried after pollFreq instead of reported
TransportFailedRetry(err, callback) ==
    Result("transport", <<>>, <<>>, 1, NoThrow)

TransportFailed(err, callback) == Invoke("transport", callback, err)

\* mutant: || in place of &&
HasTaskEither(res) == Truthy(res.body._id) \/ Truthy(res.body.status)

HasTask(res) == Truthy(res.body._id) /\ Truthy(res.body.status)

CheckTaskEnd(err, res, callback, callbackProgress) ==
    IF Truthy(err) THEN TransportFailed(err, callback)
    ELSE IF HasTask(res)
         THEN CASE res.body.status = "completed" -> Completed(err, res, callback)
                [] res.body.status = "pending" -> Pending
                [] res.body.status = "error" -> TaskError(callback)
                [] res.body.status = "processing" ->
                       Processing(res, callbackProgress)
                [] OTHER -> UnknownStatus(res, callback)
    ELSE Invoke("empty", callback, "Empty response")

(***************************************************************************)
(* The task poller.                                                        *)
(***************************************************************************)
PollInit ==
    /\ called = [t \in Tasks |-> FALSE]
    /\ cbFn = [t \in Tasks |-> "undefined"]
    /\ progFn = [t \in Tasks |-> "undefined"]
    /\ inflight = [t \in Tasks |-> 0]
    /\ timers = [t \in Tasks |-> 0]
    /\ reqCount = [t \in Tasks |-> 0]
    /\ fired = [t \in Tasks |-> 0]
    /\ hist = [t \in Tasks |-> <<>>]
    /\ lastErr = [t \in Tasks |-> Null]
    /\ lastRes = [t \in Tasks |-> <<>>]
    /\ branch = [t \in Tasks |-> "none"]
    /\ cbLog = [t \in Tasks |-> <<>>]
    /\ progLog = [t \in Tasks |-> <<>>]
    /\ thrown = [t \in Tasks |-> NoThrow]

\* mutant: checkTask polls every task being waited on, not its own
CheckTaskAll(t) ==
    /\ inflight' = [u \in Tasks |->
                       IF u = t \/ called[u] THEN inflight[u] + 1 ELSE inflight[u]]
    /\ reqCount' = [u \in Tasks |->
                       IF u = t \/ called[u] THEN reqCount[u] + 1 ELSE reqCount[u]]

\* checkTask(): self.agent.get(url + '/api/tasks/' + task).end(...)
CheckTask(t) ==
    /\ inflight' = [inflight EXCEPT ![t] = @ + 1]
    /\ reqCount' = [reqCount EXCEPT ![t] = @ + 1]

TaskWait(t, callback, callbackProgress) ==
    /\ ~called[t]
    /\ called' = [called EXCEPT ![t] = TRUE]
    /\ cbFn' = [cbFn EXCEPT ![t] = callback]
    /\ progFn' = [progFn EXCEPT ![t] = callbackProgress]
    /\ CheckTask(t)
    /\ UNCHANGED <<config, globalConfig, timers, fired, hist, lastErr,
                   lastRes, branch, cbLog, progLog, thrown, op>>

\* the response (or transport failure) of an outstanding GET arrives
End(t, err, res) ==
    /\ inflight[t] > 0
    /\ LET r == CheckTaskEnd(err, res, cbFn[t], progFn[t]) IN
        /\ inflight' = [inflight EXCEPT ![t] = @ - 1]
        /\ timers' = [timers EXCEPT ![t] = @ + r.timers]
        /\ hist' = [hist EXCEPT ![t] = Append(@, res.body.status)]
        /\ lastErr' = [lastErr EXCEPT ![t] = err]
        /\ lastRes' = [lastRes EXCEPT ![t] = <<res>>]
        /\ branch' = [branch EXCEPT ![t] = r.branch]
        /\ cbLog' = [cbLog EXCEPT ![t] = @ \o r.calls]
        /\ progLog' = [progLog EXCEPT ![t] = @ \o r.prog]
        /\ thrown' = [thrown EXCEPT ![t] = r.thrown]
    /\ UNCHANGED <<config, globalConfig, called, cbFn, progFn, reqCount,
                   fired, op>>

\* a poll timer fires and runs checkTask
TimerFire(t) ==
    /\ timers[t] > 0
    /\ reqCount[t] < MaxTicks
    /\ timers' = [timers EXCEPT ![t] = @ - 1]
    /\ fired' = [fired EXCEPT ![t] = @ + 1]
    /\ CheckTask(t)
    /\ UNCHANGED <<config, globalConfig, called, cbFn, progFn, hist, lastErr,
                   lastRes, branch, cbLog, progLog, thrown, op>>

\* the client program waits on one task at a time
Solo(t) == \A u \in Tasks \ {t} : ~called[u]

(***************************************************************************)
(* The resource operations.  op is the operation called last: its name,    *)
(* arguments and callback, the request it issued (<<>> if none), the       *)
(* outcome of that request, the invocations of the callback, the exception *)
(* that escaped the call and the value the call returned.                  *)
(***************************************************************************)
Users == {"alice"}
Passwords == {"secret"}
Files == {"refs.xml"}
Libraries == {"lib1"}
TaskAliases == {"dedupe"}
EmptyMap == <<>>
SettingsArgs == {<<>>, <<EmptyMap>>, <<"libraryTitle" :> "Imported">>}
LibraryArgs == {[isObject |-> o, id |-> l] : o \in BOOLEAN, l \in Libraries}
QueryArgs == {EmptyMap, "sort" :> "title", "library" :> "other",
              ("library" :> "other") @@ ("sort" :> "title")}
OpBodies == {"body-a", "body-b"}
Undefined == "undefined"

OpIdle ==
    [name |-> "none", phase |-> "idle", args |-> <<>>, callback |-> Undefined,
     req |-> <<>>, err |-> Null, res |-> <<>>, calls |-> <<>>,
     thrown |-> NoThrow, ret |-> "none"]

Request(method, url, attach, data) ==
    [method |-> method, url |-> url, attach |-> attach, data |-> data]

\* the operation issued `req` and returned `ret`
Issued(name, args, callback, req, ret) ==
    [OpIdle EXCEPT !.name = name, !.phase = "inflight", !.args = args,
                   !.callback = callback, !.req = <<req>>, !.ret = ret]

\* the operation raised `exc` before issuing a request
Raised(name, args, callback, exc) ==
    [OpIdle EXCEPT !.name = name, !.phase = "thrown", !.args = args,
                   !.callback = callback, !.thrown = exc]

OpFree == op.phase # "inflight"

Login(username, password, callback) ==
    /\ OpFree
    /\ op' = Issued("login", <<username, password>>, callback,
                    Request("POST", config.url \o "/api/users/login", <<>>,
                            [username |-> username, password |-> password]),
                    Undefined)
    /\ UNCHANGED <<config, globalConfig, pollVars>>

\* _.forEach(settings, (v, k) => req.field(k, v))
Fields(settings) == IF settings = <<>> THEN EmptyMap ELSE settings[1]

Upload(file, settings, callback) ==
    /\ OpFree
    /\ op' = Issued("upload", <<file, settings>>, callback,
                    Request("POST", config.url \o "/api/libraries/import",
                            <<file>>, Fields(settings)),
                    "this")
    /\ UNCHANGED <<config, globalConfig, pollVars>>

\* settings || {}
OrEmpty(settings) == IF settings = <<>> THEN EmptyMap ELSE settings[1]

TaskQueue(library, task, settings, callback) ==
    /\ OpFree
    /\ op' = Issued("taskQueue", <<library, task, settings>>, callback,
                    Request("POST",
                            config.url \o "/api/tasks/library/" \o library
                                \o "/" \o task,
                            <<>>, [settings |-> OrEmpty(settings)]),
                    "this")
    /\ UNCHANGED <<config, globalConfig, pollVars>>

\* `config` in getLibraryReferences is a free identifier: it resolves to the
\* global of that name, and raises ReferenceError when there is none
ConfigBound == globalConfig # <<>>

\* library._id
DotId(library) == IF library.isObject THEN library.id ELSE Undefined

\* _.merge({}, {library: library._id}, query): later sources win
MergeQuery(library, query) == query @@ ("library" :> DotId(library))

GetLibraryReferences(library, query, callback) ==
    /\ OpFree
    /\ op' = IF ConfigBound
             THEN Issued("getLibraryReferences", <<library, query>>, callback,
                         Request("GET", globalConfig[1].url \o "/api/references", <<>>,
                                 MergeQuery(library, query)),
                         "this")
             ELSE Raised("getLibraryReferences", <<library, query>>, callback,
                         "ReferenceError")
    /\ UNCHANGED <<config, globalConfig, pollVars>>

\* .end((err, res) => this._handleResponse(err, res, callback))
OpEnd(err, res) ==
    /\ op.phase = "inflight"
    /\ op' = [op EXCEPT !.phase = "done", !.err = err, !.res = <<res>>,
                        !.calls = @ \o HandleResponse(err, res, op.callback)]
    /\ UNCHANGED <<config, globalConfig, pollVars>>

Construct ==
    /\ config = [url |-> Url, pollFreq |-> PollFreq]
    /\ PollInit
    /\ op = OpIdle

Init == Construct /\ globalConfig = <<>>

Next ==
    \/ \E t \in Tasks, cb \in Callbacks, pr \in Callbacks :
           Solo(t) /\ TaskWait(t, cb, pr)
    \/ \E t \in Tasks, e \in TransportErrors \cup {Null} :
           \E res \in Responses(TaskBodies(t)) : End(t, e, res)
    \/ \E t \in Tasks : TimerFire(t)

Spec == Init /\ [][Next]_vars

\* a task of WideMax work items, watched with a progress callback
NextProgress ==
    \/ \E t \in Tasks, cb \in Callbacks :
           Solo(t) /\ TaskWait(t, cb, "function")
    \/ \E t \in Tasks :
           \E res \in {r \in Responses(WideBodies(t)) : r.statusCode = 200} :
               End(t, Null, res)
    \/ \E t \in Tasks : TimerFire(t)

SpecProgress == Init /\ [][NextProgress]_vars

\* several invocations at once; the server answers HTTP 200 with the task
ConcBodies(t) ==
    {b \in TaskBodies(t) :
        /\ b._id = t
        /\ b.status \in {"pending", "processing", "completed", "error"}
        /\ b.progress \in {NoProgress, <<1, 1>>}}

NextConc ==
    \/ \E t \in Tasks, cb \in Callbacks, pr \in Callbacks : TaskWait(t, cb, pr)
    \/ \E t \in Tasks, e \in TransportErrors \cup {Null} :
           \E res \in {r \in Responses(ConcBodies(t)) : r.statusCode = 200} :
               End(t, e, res)
    \/ \E t \in Tasks : TimerFire(t)

SpecConc == Init /\ [][NextConc]_vars

\* one invocation; every request is answered and every timer fires
LiveBodies(t) ==
    {b \in TaskBodies(t) : b.progress \in {NoProgress, <<1, 1>>}}

NextLive ==
    \/ \E t \in Tasks, cb \in Callbacks, pr \in Callbacks :
           Solo(t) /\ TaskWait(t, cb, pr)
    \/ \E t \in Tasks, e \in TransportErrors \cup {Null} :
           \E res \in {r \in Responses(LiveBodies(t)) : r.statusCode = 200} :
               End(t, e, res)
    \/ \E t \in Tasks : TimerFire(t)

Answered(t) ==
    \E e \in TransportErrors \cup {Null} :
        \E res \in {r \in Responses(LiveBodies(t)) : r.statusCode = 200} :
            End(t, e, res)

SpecLive ==
    /\ Init
    /\ [][NextLive]_vars
    /\ \A t \in Tasks : WF_vars(Answered(t)) /\ WF_vars(TimerFire(t))

NextOps ==
    \/ \E u \in Users, p \in Passwords, cb \in Callbacks : Login(u, p, cb)
    \/ \E f \in Files, st \in SettingsArgs, cb \in Callbacks :
           Upload(f, st, cb)
    \/ \E l \in Libraries, a \in TaskAliases, st \in SettingsArgs,
          cb \in Callbacks : TaskQueue(l, a, st, cb)
    \/ \E l \in LibraryArgs, q \in QueryArgs, cb \in Callbacks :
           GetLibraryReferences(l, q, cb)
    \/ \E e \in TransportErrors \cup {Null}, res \in Responses(OpBodies) :
           OpEnd(e, res)

\* the host program may or may not define a global `config` of its own
InitOps == Construct /\ globalConfig \in {<<>>, <<[url |-> HostUrl]>>}

SpecOps == InitOps /\ [][NextOps]_vars

(***************************************************************************)
(* Vocabulary of the properties.                                           *)
(***************************************************************************)
Ticked(t) == lastRes[t] # <<>>
Res(t) == lastRes[t][1]
TransportOk(t) == Ticked(t) /\ lastErr[t] = Null
WithCallback(t) == called[t] /\ cbFn[t] = "function"
Idle(t) == inflight[t] = 0 /\ timers[t] = 0
LacksId(t) == Res(t).body._id = ""
LacksStatus(t) == Res(t).body.status = ""

\* the outcome of the last tick, read off the response alone
TickClass(t) ==
    IF lastErr[t] # Null THEN "transport"
    ELSE IF LacksId(t) \/ LacksStatus(t) THEN "empty"
    ELSE IF Res(t).body.status \in {"pending", "processing", "completed", "error"}
         THEN Res(t).body.status
    ELSE "unknown"

TerminalClasses == {"transport", "empty", "completed", "error", "unknown"}
Terminal(t) == Ticked(t) /\ TickClass(t) \in TerminalClasses

\* hist[t] is n times "pending" followed by one "completed"
PendingThenCompleted(h) ==
    /\ Len(h) >= 1
    /\ h[Len(h)] = "completed"
    /\ \A i \in 1..(Len(h) - 1) : h[i] = "pending"

(***************************************************************************)
(* C1: a taskWait invocation given a completion callback invokes it at     *)
(* most once, and exactly once as soon as a poll tick has had a terminal   *)
(* outcome (transport failure, empty response, completed, error, unknown   *)
(* status).                                                                *)
(***************************************************************************)
C1_CallbackOnce ==
    \A t \in Tasks : WithCallback(t) =>
        /\ Len(cbLog[t]) <= 1
        /\ Terminal(t) => Len(cbLog[t]) = 1

C1_Witness ==
    \E t \in Tasks :
        /\ WithCallback(t) /\ Terminal(t)
        /\ reqCount[t] >= 2
        /\ Len(cbLog[t]) = 1

(***************************************************************************)
(* C2: terminal outcomes are absorbing: in a state whose last tick was     *)
(* terminal the invocation has no request in flight and no timer pending,  *)
(* and no later step issues a request or sets a timer for it.              *)
(***************************************************************************)
C2_TerminalAbsorbing ==
    /\ [](\A t \in Tasks : Terminal(t) => Idle(t))
    /\ [][\A t \in Tasks : Terminal(t) =>
            /\ reqCount'[t] = reqCount[t]
            /\ inflight'[t] = 0
            /\ timers'[t] = 0]_vars

C2_Witness ==
    \E t \in Tasks : Terminal(t) /\ reqCount[t] >= 2 /\ Idle(t)

(***************************************************************************)
(* C3: when the responses were n times pending and then one completed      *)
(* with HTTP 200, exactly n+1 requests were issued, every request but the  *)
(* first by a poll timer that fired, and the completion callback was       *)
(* invoked exactly once, with no error and the body of the last response.  *)
(***************************************************************************)
C3_PendingThenCompleted ==
    \A t \in Tasks :
        ( /\ WithCallback(t) /\ TransportOk(t)
          /\ PendingThenCompleted(hist[t])
          /\ ~LacksId(t)
          /\ Res(t).statusCode = 200 )
        => /\ reqCount[t] = Len(hist[t])
           /\ fired[t] = reqCount[t] - 1
           /\ Idle(t)
           /\ cbLog[t] = <<Call(Null, <<Res(t).body>>)>>

C3_Witness ==
    \E t \in Tasks :
        /\ WithCallback(t) /\ TransportOk(t)
        /\ hist[t] = <<"pending", "pending", "completed">>
        /\ Res(t).statusCode = 200
        /\ reqCount[t] = 3
        /\ cbLog[t] = <<Call(Null, <<Res(t).body>>)>>

(***************************************************************************)
(* C4: a response with an unrecognised task status ends polling and        *)
(* reports to the completion callback an error carrying the task status    *)
(* string of the response body.                                            *)
(***************************************************************************)
C4_UnknownStatusCarriesTaskStatus ==
    \A t \in Tasks :
        (WithCallback(t) /\ Ticked(t) /\ TickClass(t) = "unknown") =>
            /\ Idle(t)
            /\ cbLog[t] = <<Call("Unknown server task status: "
                                    \o Res(t).body.status, NoValue)>>

(***************************************************************************)
(* C5: a poll response with an HTTP status other than 200 and no transport *)
(* error ends polling and reports 'Status code: N', whatever task status   *)
(* the body carries; no success value is produced.                         *)
(***************************************************************************)
C5_PollNon200IsServerError ==
    \A t \in Tasks :
        ( /\ WithCallback(t) /\ TransportOk(t)
          /\ Res(t).statusCode # 200
          /\ TickClass(t) \in {"pending", "processing", "completed", "error"} )
        =>  /\ Idle(t)
            /\ cbLog[t] = <<Call("Status code: " \o ToStr(Res(t).statusCode),
                                 NoValue)>>

(***************************************************************************)
(* C7 (taskWait): a taskWait started without a completion callback that    *)
(* reaches a transport failure, an empty response, an error status or an   *)
(* unknown status ends without raising.                                    *)
(***************************************************************************)
C7_NoCallbackNeverRaises ==
    \A t \in Tasks :
        ( /\ called[t] /\ cbFn[t] = "undefined" /\ Ticked(t)
          /\ TickClass(t) \in {"transport", "empty", "error", "unknown"} )
        => thrown[t] = NoThrow

(***************************************************************************)
(* C10 as stated: on a tick whose transport succeeded the empty-response   *)
(* error is reported if and only if the body lacks both the ID and the     *)
(* status.                                                                 *)
(***************************************************************************)
C10_EmptyIffLacksBoth ==
    \A t \in Tasks : TransportOk(t) =>
        (branch[t] = "empty" <=> (LacksId(t) /\ LacksStatus(t)))

(***************************************************************************)
(* C10 amended: on a tick whose transport succeeded the empty-response     *)
(* path is taken if and only if the body lacks the ID or lacks the status  *)
(* (either one missing is enough); a completion callback, when supplied,   *)
(* is then invoked once with 'Empty response', and a body that has both    *)
(* fields is dispatched on its status.                                     *)
(***************************************************************************)
C10_EmptyIffLacksEither ==
    \A t \in Tasks : TransportOk(t) =>
        /\ branch[t] = "empty" <=> (LacksId(t) \/ LacksStatus(t))
        /\ (WithCallback(t) /\ (LacksId(t) \/ LacksStatus(t)))
              => cbLog[t] = <<Call("Empty response", NoValue)>>
        /\ (WithCallback(t) /\ ~LacksId(t) /\ ~LacksStatus(t))
              => /\ Call("Empty response", NoValue)
                       \notin {cbLog[t][i] : i \in 1..Len(cbLog[t])}
                 /\ branch[t] = TickClass(t)

C10_Witness ==
    \E t \in Tasks :
        /\ WithCallback(t) /\ TransportOk(t)
        /\ LacksId(t) /\ ~LacksStatus(t)
        /\ branch[t] = "empty"
        /\ cbLog[t] = <<Call("Empty response", NoValue)>>

OpDone == op.phase = "done"
OpRes == op.res[1]
OpWithCallback == op.name # "none" /\ IsFunction(op.callback)

(***************************************************************************)
(* C6: given a callback that is a function, _handleResponse invokes it     *)
(* exactly once, with the transport error when err is set, with 'Status    *)
(* code: N' when err is unset and the status code N is not 200, and with   *)
(* (null, res.body) otherwise; an error never comes with a value.          *)
(***************************************************************************)
C6_HandleResponseOutcome ==
    (OpDone /\ OpWithCallback) =>
        /\ Len(op.calls) = 1
        /\ op.err # Null => op.calls[1] = Call(op.err, NoValue)
        /\ (op.err = Null /\ OpRes.statusCode # 200) =>
              /\ op.calls[1].err \in {"Status code: 201", "Status code: 500"}
              /\ op.calls[1].err = "Status code: " \o ToStr(OpRes.statusCode)
              /\ op.calls[1].val = NoValue
        /\ (op.err = Null /\ OpRes.statusCode = 200) =>
              op.calls[1] = Call(Null, <<OpRes.body>>)
        /\ op.calls[1].err # Null => op.calls[1].val = NoValue

C6_Witness ==
    /\ OpDone /\ OpWithCallback
    /\ op.err = Null
    /\ OpRes.statusCode = 500
    /\ op.calls = <<Call("Status code: 500", NoValue)>>

(***************************************************************************)
(* C8: every resource operation called with a callback issues its request, *)
(* lets no exception escape the call, and has invoked the callback exactly *)
(* once when the request has ended.                                        *)
(***************************************************************************)
C8_OperationsReportThroughCallback ==
    OpWithCallback =>
        /\ op.thrown = NoThrow
        /\ op.req # <<>>
        /\ OpDone => Len(op.calls) = 1

(***************************************************************************)
(* C9: the query getLibraryReferences sends holds the library ID argument  *)
(* under the key library, whatever extraQuery holds under that key, and    *)
(* every other key of extraQuery unchanged.                                *)
(***************************************************************************)
C9_LibraryIdWins ==
    (op.name = "getLibraryReferences" /\ op.req # <<>>) =>
        LET library == op.args[1]
            query == op.args[2]
            sent == op.req[1].data
        IN  /\ DOMAIN sent = DOMAIN query \cup {"library"}
            /\ sent["library"] = library.id
            /\ \A k \in DOMAIN query \ {"library"} : sent[k] = query[k]

(***************************************************************************)
(* C11: on every tick whose response is processing with progress           *)
(* {current, max}, max > 0, and a progress callback supplied, the progress *)
(* callback is invoked exactly once for that tick, with the response body  *)
(* augmented by progress.percent = ceil(current * 100 / max).              *)
(***************************************************************************)
CeilDiv(a, b) == (a + b - 1) \div b
ProcessingTicks(t) == Cardinality({i \in 1..Len(hist[t]) : hist[t][i] = "processing"})

C11_ProgressPercent ==
    \A t \in Tasks :
        ( /\ called[t] /\ progFn[t] = "function"
          /\ TransportOk(t) /\ TickClass(t) = "processing"
          /\ Res(t).body.progress # NoProgress )
        => LET p == Res(t).body.progress IN
           /\ Len(progLog[t]) = ProcessingTicks(t)
           /\ progLog[t][Len(progLog[t])] =
                  [Res(t).body EXCEPT
                      !.progress = <<p[1], p[2], CeilDiv(p[1] * 100, p[2])>>]

(***************************************************************************)
(* C12: a transport failure on a poll tick is terminal and is not retried: *)
(* the completion callback is invoked once with that error value unchanged *)
(* and nothing else, the request is not issued again and no tick is        *)
(* scheduled.                                                              *)
(***************************************************************************)
C12_TransportFailureTerminal ==
    \A t \in Tasks :
        (WithCallback(t) /\ Ticked(t) /\ TickClass(t) = "transport") =>
            /\ cbLog[t] = <<Call(lastErr[t], NoValue)>>
            /\ Idle(t)
            /\ reqCount[t] = Len(hist[t])

C12_Witness ==
    \E t \in Tasks :
        /\ WithCallback(t) /\ Ticked(t)
        /\ lastErr[t] = "ECONNREFUSED"
        /\ reqCount[t] = 2
        /\ cbLog[t] = <<Call("ECONNREFUSED", NoValue)>>

(***************************************************************************)
(* C14: taskWait never gives up: after any number of consecutive pending   *)
(* or processing responses (HTTP 200, with ID) another tick is scheduled   *)
(* and the completion callback has not been invoked.                       *)
(***************************************************************************)
C14_NeverGivesUp ==
    \A t \in Tasks :
        ( /\ called[t] /\ TransportOk(t) /\ inflight[t] = 0
          /\ Res(t).statusCode = 200 /\ ~LacksId(t)
          /\ \A i \in 1..Len(hist[t]) : hist[t][i] \in {"pending", "processing"} )
        => timers[t] = 1 /\ cbLog[t] = <<>>

(***************************************************************************)
(* C15: a taskWait invocation has at most one outstanding activity, one    *)
(* request in flight or one poll timer pending, never both and never two   *)
(* of either; the first request is issued by taskWait itself and every     *)
(* other one by a timer that fired.                                        *)
(***************************************************************************)
C15_OneOutstanding ==
    \A t \in Tasks :
        /\ inflight[t] + timers[t] <= 1
        /\ reqCount[t] = fired[t] + (IF called[t] THEN 1 ELSE 0)
        /\ Len(hist[t]) + inflight[t] = reqCount[t]

C15_Witness ==
    \E t \in Tasks :
        /\ progFn[t] = "function"
        /\ hist[t] = <<"pending", "processing">>
        /\ timers[t] = 1 /\ inflight[t] = 0
        /\ reqCount[t] = 2

(***************************************************************************)
(* C16: every tick whose response is processing schedules exactly one next *)
(* tick, whether or not a progress callback was supplied and whether or    *)
(* not the body carries a progress field; the handler does not end without *)
(* a scheduled tick.                                                       *)
(***************************************************************************)
C16_ProcessingSchedulesNext ==
    \A t \in Tasks :
        ( /\ called[t] /\ TransportOk(t) /\ inflight[t] = 0
          /\ TickClass(t) = "processing" )
        => timers[t] = 1 /\ thrown[t] = NoThrow

(***************************************************************************)
(* C17: a response with task status error (with ID) ends polling and       *)
(* delivers an error, never a success value, to the completion callback.   *)
(***************************************************************************)
C17_TaskErrorIsError ==
    \A t \in Tasks :
        (WithCallback(t) /\ TransportOk(t) /\ TickClass(t) = "error") =>
            /\ Idle(t)
            /\ Len(cbLog[t]) = 1
            /\ cbLog[t][1].err # Null
            /\ cbLog[t][1].val = NoValue

C17_Witness ==
    \E t \in Tasks :
        /\ WithCallback(t) /\ TransportOk(t)
        /\ hist[t] = <<"pending", "error">>
        /\ cbLog[t] = <<Call("Task error", NoValue)>>

(***************************************************************************)
(* C19: the progress callback is invoked only by a tick whose response is  *)
(* processing, once: never by a pending or a terminal tick, and never once *)
(* the completion callback has been invoked.                               *)
(***************************************************************************)
C19_ProgressOnlyWhenProcessing ==
    [][\A t \in Tasks : progLog'[t] # progLog[t] =>
          /\ Len(progLog'[t]) = Len(progLog[t]) + 1
          /\ hist'[t] = Append(hist[t], "processing")
          /\ lastErr'[t] = Null
          /\ cbLog[t] = <<>> /\ cbLog'[t] = <<>>]_vars

C19_Witness ==
    \E t \in Tasks :
        /\ WithCallback(t) /\ progFn[t] = "function"
        /\ hist[t] = <<"pending", "processing", "completed">>
        /\ Len(progLog[t]) = 1
        /\ Len(cbLog[t]) = 1

(***************************************************************************)
(* C13: every operation of the facade returns the facade itself.           *)
(***************************************************************************)
C13_OperationsReturnThis ==
    (op.name # "none" /\ op.thrown = NoThrow) => op.ret = "this"

(***************************************************************************)
(* C18: with several taskWait invocations running at once, the callbacks   *)
(* of an invocation receive only bodies of its own task, every step        *)
(* changes the polling state of at most one invocation (so a terminal      *)
(* outcome of one neither stops nor starts polling of another), and no     *)
(* step writes the shared config.                                          *)
(***************************************************************************)
PollState(t) ==
    <<called[t], cbFn[t], progFn[t], inflight[t], timers[t], reqCount[t],
      fired[t], hist[t], lastErr[t], lastRes[t], branch[t], cbLog[t],
      progLog[t], thrown[t]>>

OwnOutcomes(t) ==
    /\ \A i \in 1..Len(cbLog[t]) :
           cbLog[t][i].val # NoValue => cbLog[t][i].val[1]._id = t
    /\ \A i \in 1..Len(progLog[t]) : progLog[t][i]._id = t

C18_Isolation ==
    /\ [](\A t \in Tasks : OwnOutcomes(t))
    /\ [][/\ config' = config
          /\ Cardinality({t \in Tasks : PollState(t)' # PollState(t)}) <= 1]_vars

C18_Witness ==
    \E t, u \in Tasks :
        /\ t # u
        /\ WithCallback(t) /\ Terminal(t) /\ Len(cbLog[t]) = 1
        /\ WithCallback(u) /\ progFn[u] = "function"
        /\ hist[u] = <<"processing">>
        /\ timers[u] = 1 /\ cbLog[u] = <<>> /\ Len(progLog[u]) = 1

(***************************************************************************)
(* C20: when every request is answered and every timer fires, once a poll  *)
(* has been answered with a terminal response the invocation has no        *)
(* request or timer outstanding from then on, and, given a completion      *)
(* callback, that callback has been invoked exactly once.                  *)
(***************************************************************************)
C20_TerminalLeadsToQuiescence ==
    \A t \in Tasks :
        /\ Terminal(t) ~> [](Idle(t))
        /\ (WithCallback(t) /\ Terminal(t))
               ~> [](Len(cbLog[t]) = 1 /\ Idle(t))

C20_Witness ==
    \E t \in Tasks :
        /\ WithCallback(t) /\ Terminal(t)
        /\ hist[t] = <<"pending", "processing", "bogus">>
        /\ Len(cbLog[t]) = 1 /\ Idle(t)

====
